---- MODULE Spec2Model ----
(***************************************************************************)
(* Model of the todo backend: account registration and login, bearer-token *)
(* identity resolution, and the owner-scoped task endpoints.               *)
(*                                                                         *)
(* Two snapshots of the application module are kept in the repository      *)
(* (.history/app_20260214104525.py and .history/app_20260215151647.py).    *)
(* The variable `version` says which snapshot is deployed; every handler   *)
(* below follows the snapshot that `version` names.                        *)
(*                                                                         *)
(* auth.py (create_access_token, verify_token, oauth2_scheme) is imported  *)
(* by both snapshots but is not among the source files; those three        *)
(* operators follow sections 4.2, 4.3 and 6 of the specification.          *)
(***************************************************************************)
EXTENDS Integers, Sequences, FiniteSets, TLC

VARIABLES
    version,     \* which snapshot of the application module is running
    users,       \* rows of table `user`
    tasks,       \* rows of table `task`
    nextTaskId,  \* the store's next primary key for `task`
    now,         \* the wall clock, in minutes
    pending,     \* register requests past the existence pre-check, not yet committed
    receipts,    \* what clients hold from their successful registrations
    resp         \* the last response sent, with the request it answers

vars == <<version, users, tasks, nextTaskId, now, pending, receipts, resp>>

----------------------------------------------------------------------------
(* Bounds of the model *)

MaxTasks == 1
MaxRows == 2
MaxClock == 2
MaxTime == 30
TickMinutes == 15

(* Program constants *)

ACCESS_TOKEN_EXPIRE_MINUTES == 30
BCRYPT_MAX == 72
BCRYPT_MAX_BYTES == 72
PASSWORD_MIN_LENGTH == 8
DESCRIPTION_MAX_LENGTH == 1000
TITLE_MIN_LENGTH == 1
TITLE_MAX_LENGTH == 200

V0214 == "app_20260214104525"
V0215 == "app_20260215151647"
Versions == {V0214, V0215}

\* Python's None and a field the request leaves out, for identifiers and enums
None == "<None>"
Unset == "<unset>"
\* the same two, for fields that hold text
NoneStr == <<"<None>">>
UnsetStr == <<"<unset>">>

Min(a, b) == IF a <= b THEN a ELSE b

\* the string made of n copies of the character c
Rep(c, n) == [i \in 1..n |-> c]

----------------------------------------------------------------------------
(* Input domains *)

ValidEmails == {"a@x.com", "A@x.com"}
Emails == ValidEmails \cup {"not-an-email"}

PwP == Rep("p", PASSWORD_MIN_LENGTH)
PwQ == Rep("q", PASSWORD_MIN_LENGTH)
PwShort == Rep("p", PASSWORD_MIN_LENGTH - 1)
Passwords == {PwP, PwQ, PwShort}

\* a character that is not ASCII
WIDE == "U+00E9"

\* passwords about the 72-character and the 72-byte limit: beyond 72
\* characters, alike or not within the first 72; and of 72 two-byte
\* characters, alike or not within the first 72 bytes
PwLong == Rep("p", BCRYPT_MAX + 1)
PwLongTail == Rep("p", BCRYPT_MAX) \o <<"q">>
PwLongDiff == Rep("p", BCRYPT_MAX - 1) \o <<"q", "p">>
PwWide == Rep(WIDE, BCRYPT_MAX)
PwWideTail == Rep(WIDE, BCRYPT_MAX_BYTES \div 2) \o Rep("z", BCRYPT_MAX - (BCRYPT_MAX_BYTES \div 2))
PwWideDiff == Rep(WIDE, (BCRYPT_MAX_BYTES \div 2) - 1) \o Rep("z", BCRYPT_MAX)
LongPasswords == {PwP, PwLong, PwLongTail, PwLongDiff, PwWide, PwWideTail, PwWideDiff}

Salts == {"s1"}
UserIdSeq == <<"u1", "u2", "u3">>
UserIds == {UserIdSeq[i] : i \in 1..Len(UserIdSeq)}
Clients == {"c1", "c2"}

Times == {t \in 0..MaxTime : t % TickMinutes = 0}
\* expiry times of tokens: issued at a time of the model, or before its start
TokenExps == {0} \cup {t + ACCESS_TOKEN_EXPIRE_MINUTES : t \in Times}

Jwt(sub, exp, sig) == [kind |-> "jwt", sub |-> sub, exp |-> exp, sig |-> sig]
NoToken == [kind |-> "none", sub |-> None, exp |-> 0, sig |-> "none"]

\* every bearer token a client may send: none, or a token naming any subject
\* (or none) with any expiry, signed with the server's secret ("ok") or not
Tokens ==
    {NoToken} \cup {Jwt(sub, exp, sig) : sub \in UserIds \cup {None},
                                        exp \in TokenExps, sig \in {"ok", "bad"}}

\* the tokens sent while the clock stands at 0: an unexpired one for either
\* of the first two subjects (registered or not); and none, a tampered one
\* and an expired one
GoodTokens == {Jwt(sub, ACCESS_TOKEN_EXPIRE_MINUTES, "ok") : sub \in {"u1", "u2"}}
BadTokens == {NoToken, Jwt("u1", ACCESS_TOKEN_EXPIRE_MINUTES, "bad"), Jwt("u1", 0, "ok")}
TaskTokens == GoodTokens \cup BadTokens

T1 == <<"a">>
T2 == <<"b">>
TitleEmpty == <<>>
TitleLong == Rep("a", TITLE_MAX_LENGTH + 1)
D1 == <<"d">>

Statuses == {"pending", "in_progress", "completed"}
TaskIds == 1..MaxTasks

TaskIn(title, description, status) ==
    [title |-> title, description |-> description, status |-> status]

\* request bodies of POST /api/tasks
TaskCreateInputs ==
    {TaskIn(T1, UnsetStr, Unset), TaskIn(T1, D1, "completed"),
     TaskIn(T1, D1, "in_progress"), TaskIn(T1, UnsetStr, "pending"),
     TaskIn(TitleEmpty, D1, Unset), TaskIn(TitleLong, UnsetStr, "completed")}

\* request bodies of PUT /api/tasks/{id}: no field, one field, all fields
TaskUpdateInputs ==
    {TaskIn(UnsetStr, UnsetStr, Unset),
     TaskIn(T2, UnsetStr, Unset), TaskIn(TitleEmpty, UnsetStr, Unset),
     TaskIn(NoneStr, UnsetStr, Unset), TaskIn(TitleLong, UnsetStr, Unset),
     TaskIn(UnsetStr, NoneStr, Unset), TaskIn(UnsetStr, D1, Unset),
     TaskIn(UnsetStr, UnsetStr, "pending"), TaskIn(UnsetStr, UnsetStr, "in_progress"),
     TaskIn(UnsetStr, UnsetStr, "completed"), TaskIn(UnsetStr, UnsetStr, None),
     TaskIn(T2, NoneStr, "completed")}

\* the bodies sent where two tasks are kept: a creation with and without
\* description and status; an update of no field, of each field, of all
RowCreateInputs == {TaskIn(T1, UnsetStr, Unset), TaskIn(T1, D1, "completed")}
RowUpdateInputs ==
    {TaskIn(UnsetStr, UnsetStr, Unset), TaskIn(T2, UnsetStr, Unset),
     TaskIn(UnsetStr, NoneStr, Unset), TaskIn(UnsetStr, UnsetStr, "completed"),
     TaskIn(UnsetStr, UnsetStr, "pending"), TaskIn(T2, NoneStr, "completed")}

\* the bodies sent while time passes: an update of no field, of one, of all
ClockUpdateInputs ==
    {TaskIn(UnsetStr, UnsetStr, Unset), TaskIn(T2, UnsetStr, Unset),
     TaskIn(T2, NoneStr, "completed")}

\* what the clock can advance between two readings within one request
Lapses == {0, 1}

StatusFilters == Statuses \cup {None}
Sorts == {None, "created_at", "title"}

\* the requests sent to the task endpoints: every body with a good token,
\* and one body with each of the others
CreateRequests ==
    (GoodTokens \X TaskCreateInputs) \cup (BadTokens \X {TaskIn(T1, UnsetStr, Unset)})
UpdateRequests ==
    (GoodTokens \X TaskIds \X TaskUpdateInputs)
    \cup (BadTokens \X {1} \X {TaskIn(T2, UnsetStr, Unset)})
ListRequests ==
    (GoodTokens \X StatusFilters \X Sorts) \cup (BadTokens \X {None} \X {None})
\* requests that address a task by its id
TaskRequests == (GoodTokens \X TaskIds) \cup (BadTokens \X {1})

RegisterRequests ==
    (ValidEmails \X {PwP}) \cup {<<"a@x.com", PwShort>>, <<"not-an-email", PwP>>}
LoginRequests == ValidEmails \X {PwP, PwQ}



----------------------------------------------------------------------------
(* Responses *)

NoBody == [kind |-> "none"]
MessageBody(m) == [kind |-> "message", message |-> m]
TokenBody(tok) == [kind |-> "token", access_token |-> tok, token_type |-> "bearer"]
UserBody(u) == [kind |-> "user", id |-> u.id, email |-> u.email, created_at |-> u.created_at]
TaskBody(t) == [kind |-> "task", task |-> t]
TasksBody(ts) == [kind |-> "tasks", items |-> ts]

\* what the client sees of a response
Outcome(status, detail, hdr, body) ==
    [status |-> status, detail |-> detail, hdr |-> hdr, body |-> body]

HTTPException(status, detail, hdr) == Outcome(status, detail, hdr, NoBody)

ValidationError == HTTPException(422, "validation error", "none")
InternalServerError == HTTPException(500, "Internal Server Error", "none")

----------------------------------------------------------------------------
(* security.py: the credential hasher.  A password is a sequence of         *)
(* characters.  security.py keeps its first 72 characters; passlib encodes  *)
(* them as UTF-8 and bcrypt digests the first 72 bytes of that.  A bcrypt   *)
(* hash is modelled by its salt and the bytes it digests; verification      *)
(* recomputes them from the plain password and compares.                    *)

\* the UTF-8 encoding of a character: two bytes for WIDE, one for every
\* other character of the model
utf8(c) == IF c = WIDE THEN <<"C3", "A9">> ELSE <<c>>

RECURSIVE encode(_)
encode(s) == IF s = <<>> THEN <<>> ELSE utf8(Head(s)) \o encode(Tail(s))

\* the bytes of a secret that bcrypt digests
bcrypt_input(secret) ==
    LET bytes == encode(secret)
    IN  SubSeq(bytes, 1, Min(Len(bytes), BCRYPT_MAX_BYTES))

\* a cut at 71 characters
Truncate_Shorter(password) == SubSeq(password, 1, Min(Len(password), BCRYPT_MAX - 1))

\* password[:72]
Truncate(password) == SubSeq(password, 1, Min(Len(password), BCRYPT_MAX))

get_password_hash(password, salt) ==
    [salt |-> salt, digest |-> bcrypt_input(Truncate(password))]

\* a verification that cuts the password elsewhere than the hashing does
verify_password_Shorter(plain_password, hashed_password) ==
    hashed_password.digest = bcrypt_input(Truncate_Shorter(plain_password))

verify_password(plain_password, hashed_password) ==
    hashed_password.digest = bcrypt_input(Truncate(plain_password))

----------------------------------------------------------------------------
(* auth.py: the token service (specification 4.2) *)

\* expires_delta left out: the configured lifetime
NoDelta == [given |-> FALSE, minutes |-> 0]
timedelta(minutes) == [given |-> TRUE, minutes |-> minutes]

create_access_token(sub, expires_delta, t) ==
    LET lifetime == IF expires_delta.given THEN expires_delta.minutes
                    ELSE ACCESS_TOKEN_EXPIRE_MINUTES
    IN  [kind |-> "jwt", sub |-> sub, exp |-> t + lifetime, sig |-> "ok"]

\* the payload of a token that verifies at time t, or failure
verify_token(token, t) ==
    IF token.kind = "jwt" /\ token.sig = "ok" /\ ~(t >= token.exp)
    THEN [ok |-> TRUE, sub |-> token.sub]
    ELSE [ok |-> FALSE, sub |-> None]

\* OAuth2PasswordBearer: the bearer token of the Authorization header, if any
oauth2_scheme(token) == token.kind # "none"

----------------------------------------------------------------------------
(* The store *)

NoUser == [id |-> None, email |-> None,
           hashed_password |-> [salt |-> None, digest |-> <<>>], created_at |-> 0]

UserRow(id, email, hashed_password, created_at) ==
    [id |-> id, email |-> email, hashed_password |-> hashed_password,
     created_at |-> created_at]

\* select(User).where(User.email == email)
UsersByEmail(users_, email) == {u \in users_ : u.email = email}

\* select(User).where(User.id == id)
UsersById(users_, id) == {u \in users_ : u.id = id}

\* .first(): a row of the result, or None
First(rows, none) == IF rows = {} THEN none ELSE CHOOSE r \in rows : TRUE

\* str(uuid4()): an identifier no row has yet
uuid4(users_) ==
    LET free == {i \in 1..Len(UserIdSeq) : UserIdSeq[i] \notin {u.id : u \in users_}}
    IN  UserIdSeq[CHOOSE i \in free : \A j \in free : i <= j]

\* an insert into a table without the unique constraint on email
InsertUser_NoUniqueEmail(users_, row) ==
    IF \E u \in users_ : u.id = row.id
    THEN [ok |-> FALSE, users |-> users_]
    ELSE [ok |-> TRUE, users |-> users_ \cup {row}]

\* db.add(db_user); db.commit(): table `user` has id as primary key and a
\* unique constraint on email; a violation raises and nothing is inserted
InsertUser(users_, row) ==
    IF \E u \in users_ : u.email = row.email \/ u.id = row.id
    THEN [ok |-> FALSE, users |-> users_]
    ELSE [ok |-> TRUE, users |-> users_ \cup {row}]

----------------------------------------------------------------------------
(* The identity resolver *)

Unauthenticated(detail, hdr) == HTTPException(401, detail, hdr)

\* a resolver that reads the token's claims without verifying it
get_current_user_Unverified(v, users_, token, t) ==
    LET found == UsersById(users_, token.sub)
    IN  IF ~oauth2_scheme(token)
        THEN [ok |-> FALSE, user |-> NoUser,
              out |-> Unauthenticated("Not authenticated", "Bearer")]
        ELSE IF token.sub = None \/ found = {}
        THEN [ok |-> FALSE, user |-> NoUser,
              out |-> Unauthenticated("Could not validate credentials", "none")]
        ELSE [ok |-> TRUE, user |-> First(found, NoUser), out |-> Outcome(200, "", "none", NoBody)]

get_current_user(v, users_, token, t) ==
    LET payload == verify_token(token, t)
        found == UsersById(users_, payload.sub)
    IN  IF ~oauth2_scheme(token)
        THEN [ok |-> FALSE, user |-> NoUser,
              out |-> Unauthenticated("Not authenticated", "Bearer")]
        ELSE IF ~payload.ok
        THEN [ok |-> FALSE, user |-> NoUser,
              out |-> Unauthenticated("Could not validate credentials", "Bearer")]
        ELSE IF payload.sub = None
        THEN [ok |-> FALSE, user |-> NoUser,
              out |-> Unauthenticated("Could not validate credentials",
                                      IF v = V0214 THEN "Bearer" ELSE "none")]
        ELSE IF found = {}
        THEN [ok |-> FALSE, user |-> NoUser,
              out |-> IF v = V0214
                      THEN HTTPException(404, "User not found", "none")
                      ELSE Unauthenticated("Could not validate credentials", "none")]
        ELSE [ok |-> TRUE, user |-> First(found, NoUser), out |-> Outcome(200, "", "none", NoBody)]

----------------------------------------------------------------------------
(* The account service *)

\* UserCreate: email: EmailStr, password: str = Field(min_length=8)
UserCreateValid(email, password) ==
    email \in ValidEmails /\ Len(password) >= PASSWORD_MIN_LENGTH

\* a lifetime of half the configured one
access_token_expires_Half(v) == timedelta(ACCESS_TOKEN_EXPIRE_MINUTES \div 2)

\* the lifetime register_user and login_for_access_token ask for: the earlier
\* snapshot passes timedelta(minutes=ACCESS_TOKEN_EXPIRE_MINUTES), the later none
access_token_expires(v) ==
    IF v = V0214 THEN timedelta(ACCESS_TOKEN_EXPIRE_MINUTES) ELSE NoDelta

\* no existence pre-check
register_precheck_Skipped(users_, email) ==
    [ok |-> TRUE, out |-> Outcome(200, "", "none", NoBody)]

\* register_user up to the existence pre-check
register_precheck(users_, email) ==
    IF UsersByEmail(users_, email) # {}
    THEN [ok |-> FALSE, out |-> HTTPException(409, "Email already registered", "none")]
    ELSE [ok |-> TRUE, out |-> Outcome(200, "", "none", NoBody)]

\* a registration whose token names the email, not the id
register_insert_SubEmail(v, users_, email, password, id, salt, t) ==
    LET db_user == UserRow(id, email, get_password_hash(password, salt), t)
        ins == InsertUser(users_, db_user)
    IN  IF ~ins.ok
        THEN [out |-> InternalServerError, users |-> users_]
        ELSE [out |-> Outcome(201, "", "none",
                        TokenBody(create_access_token(db_user.email, access_token_expires(v), t))),
              users |-> ins.users]

\* register_user from hashing to the response
register_insert(v, users_, email, password, id, salt, t) ==
    LET db_user == UserRow(id, email, get_password_hash(password, salt), t)
        ins == InsertUser(users_, db_user)
    IN  IF ~ins.ok
        THEN [out |-> InternalServerError, users |-> users_]
        ELSE [out |-> Outcome(201, "", "none",
                        TokenBody(create_access_token(db_user.id, access_token_expires(v), t))),
              users |-> ins.users]

\* a login that tells an unknown email from a wrong password
login_for_access_token_Enumerating(v, users_, username, password, t) ==
    LET user == First(UsersByEmail(users_, username), NoUser)
    IN  IF user = NoUser
        THEN HTTPException(404, "User not found", "none")
        ELSE IF ~verify_password(password, user.hashed_password)
        THEN HTTPException(401, "Incorrect username or password", "Bearer")
        ELSE Outcome(200, "", "none",
                     TokenBody(create_access_token(user.id, access_token_expires(v), t)))

login_for_access_token(v, users_, username, password, t) ==
    LET user == First(UsersByEmail(users_, username), NoUser)
    IN  IF user = NoUser
        THEN HTTPException(401, "Incorrect username or password", "Bearer")
        ELSE IF ~verify_password(password, user.hashed_password)
        THEN HTTPException(401, "Incorrect username or password", "Bearer")
        ELSE Outcome(200, "", "none",
                     TokenBody(create_access_token(user.id, access_token_expires(v), t)))

logout_user == Outcome(200, "", "none", MessageBody("Logged out successfully"))

read_users_me(v, users_, token, t) ==
    LET cu == get_current_user(v, users_, token, t)
    IN  IF ~cu.ok THEN cu.out ELSE Outcome(200, "", "none", UserBody(cu.user))

----------------------------------------------------------------------------
(* The task store accessor *)

NoTask == [id |-> 0, user_id |-> None, title |-> NoneStr, description |-> NoneStr,
           completed |-> FALSE, created_at |-> 0, updated_at |-> 0]

\* TaskCreate: title 1..200 characters, description optional up to 1000,
\* status one of the enum (default pending)
TaskCreateValid(task_in) ==
    /\ task_in.title \notin {UnsetStr, NoneStr}
    /\ Len(task_in.title) >= TITLE_MIN_LENGTH
    /\ Len(task_in.title) <= TITLE_MAX_LENGTH
    /\ task_in.description \in {UnsetStr, NoneStr}
          \/ Len(task_in.description) <= DESCRIPTION_MAX_LENGTH
    /\ task_in.status \in Statuses \cup {Unset}

\* TaskUpdate: every field optional; the title's lower bound is in the
\* earlier snapshot only
TaskUpdateValid(v, task_update) ==
    /\ task_update.title \in {UnsetStr, NoneStr}
          \/ /\ (v = V0214 => Len(task_update.title) >= TITLE_MIN_LENGTH)
             /\ Len(task_update.title) <= TITLE_MAX_LENGTH
    /\ task_update.description \in {UnsetStr, NoneStr}
          \/ Len(task_update.description) <= DESCRIPTION_MAX_LENGTH
    /\ task_update.status \in Statuses \cup {Unset, None}

\* a lookup by id alone
OwnedTasks_AnyOwner(tasks_, id, user_id) ==
    {task \in tasks_ : task.id = id}

\* select(Task).where(Task.id == id, Task.user_id == current_user.id)
OwnedTasks(tasks_, id, user_id) ==
    {task \in tasks_ : task.id = id /\ task.user_id = user_id}

NotFound == HTTPException(404, "Task not found", "none")

\* a mapping that takes every status but pending for completed
is_completed_NotPending(status) == (status \in {"in_progress", "completed"})

\* the mapping of the API's status onto the stored boolean
is_completed(status) == (status = "completed")

\* create_task with the status of the request ignored: every new task is open
create_task_Pending(v, users_, tasks_, nid, token, task_in, t, t2) ==
    LET cu == get_current_user(v, users_, token, t)
        db_task == [id |-> nid,
                    user_id |-> cu.user.id,
                    title |-> task_in.title,
                    description |-> IF task_in.description = UnsetStr
                                    THEN NoneStr ELSE task_in.description,
                    completed |-> FALSE,
                    created_at |-> t,
                    updated_at |-> t2]
    IN  IF ~cu.ok THEN [out |-> cu.out, tasks |-> tasks_, nid |-> nid]
        ELSE IF ~TaskCreateValid(task_in)
        THEN [out |-> ValidationError, tasks |-> tasks_, nid |-> nid]
        ELSE [out |-> Outcome(201, "", "none", TaskBody(db_task)),
              tasks |-> tasks_ \cup {db_task}, nid |-> nid + 1]

\* created_at and updated_at are two readings of the clock, t and t2
create_task(v, users_, tasks_, nid, token, task_in, t, t2) ==
    LET cu == get_current_user(v, users_, token, t)
        db_task == [id |-> nid,
                    user_id |-> cu.user.id,
                    title |-> task_in.title,
                    description |-> IF task_in.description = UnsetStr
                                    THEN NoneStr ELSE task_in.description,
                    completed |-> is_completed(IF task_in.status = Unset
                                               THEN "pending" ELSE task_in.status),
                    created_at |-> t,
                    updated_at |-> t2]
    IN  IF ~cu.ok THEN [out |-> cu.out, tasks |-> tasks_, nid |-> nid]
        ELSE IF ~TaskCreateValid(task_in)
        THEN [out |-> ValidationError, tasks |-> tasks_, nid |-> nid]
        ELSE [out |-> Outcome(201, "", "none", TaskBody(db_task)),
              tasks |-> tasks_ \cup {db_task}, nid |-> nid + 1]

\* a listing whose filter knows completed and pending only
list_tasks_TwoFilters(v, users_, tasks_, token, status, sort, t) ==
    LET cu == get_current_user(v, users_, token, t)
        mine == {task \in tasks_ : task.user_id = cu.user.id}
        rows == IF status = "completed"
                THEN {task \in mine : task.completed = TRUE}
                ELSE IF status = "pending"
                THEN {task \in mine : task.completed = FALSE}
                ELSE mine
    IN  IF ~cu.ok THEN cu.out
        ELSE Outcome(200, "", "none", TasksBody(rows))

list_tasks(v, users_, tasks_, token, status, sort, t) ==
    LET cu == get_current_user(v, users_, token, t)
        mine == {task \in tasks_ : task.user_id = cu.user.id}
        rows == IF status = None THEN mine
                ELSE IF status = "completed"
                THEN {task \in mine : task.completed = TRUE}
                ELSE {task \in mine : task.completed = FALSE}
    IN  IF ~cu.ok THEN cu.out
        ELSE Outcome(200, "", "none", TasksBody(rows))

get_task(v, users_, tasks_, token, id, t) ==
    LET cu == get_current_user(v, users_, token, t)
        task == First(OwnedTasks(tasks_, id, cu.user.id), NoTask)
    IN  IF ~cu.ok THEN cu.out
        ELSE IF task = NoTask THEN NotFound
        ELSE Outcome(200, "", "none", TaskBody(task))

\* an update that replaces the task: a field left out is reset
update_task_Replacing(v, users_, tasks_, token, id, task_update, t) ==
    LET cu == get_current_user(v, users_, token, t)
        task == First(OwnedTasks(tasks_, id, cu.user.id), NoTask)
        updated == [task EXCEPT
                      !.completed = IF task_update.status # Unset
                                    THEN is_completed(task_update.status) ELSE FALSE,
                      !.title = IF task_update.title # UnsetStr
                                THEN task_update.title ELSE @,
                      !.description = IF task_update.description # UnsetStr
                                      THEN task_update.description ELSE NoneStr,
                      !.updated_at = t]
    IN  IF ~cu.ok THEN [out |-> cu.out, tasks |-> tasks_]
        ELSE IF ~TaskUpdateValid(v, task_update)
        THEN [out |-> ValidationError, tasks |-> tasks_]
        ELSE IF task = NoTask THEN [out |-> NotFound, tasks |-> tasks_]
        ELSE IF updated.title = NoneStr
        THEN [out |-> InternalServerError, tasks |-> tasks_]
        ELSE [out |-> Outcome(200, "", "none", TaskBody(updated)),
              tasks |-> (tasks_ \ {task}) \cup {updated}]

\* an update that finds the task by its id alone and stamps it anew
update_task_Restamping(v, users_, tasks_, token, id, task_update, t) ==
    LET cu == get_current_user(v, users_, token, t)
        task == First({x \in tasks_ : x.id = id}, NoTask)
        updated == [task EXCEPT
                      !.completed = IF task_update.status # Unset
                                    THEN is_completed(task_update.status) ELSE @,
                      !.title = IF task_update.title # UnsetStr
                                THEN task_update.title ELSE @,
                      !.description = IF task_update.description # UnsetStr
                                      THEN task_update.description ELSE @,
                      !.user_id = cu.user.id,
                      !.updated_at = t]
    IN  IF ~cu.ok THEN [out |-> cu.out, tasks |-> tasks_]
        ELSE IF ~TaskUpdateValid(v, task_update)
        THEN [out |-> ValidationError, tasks |-> tasks_]
        ELSE IF task = NoTask THEN [out |-> NotFound, tasks |-> tasks_]
        ELSE IF updated.title = NoneStr
        THEN [out |-> InternalServerError, tasks |-> tasks_]
        ELSE [out |-> Outcome(200, "", "none", TaskBody(updated)),
              tasks |-> (tasks_ \ {task}) \cup {updated}]

update_task(v, users_, tasks_, token, id, task_update, t) ==
    LET cu == get_current_user(v, users_, token, t)
        task == First(OwnedTasks(tasks_, id, cu.user.id), NoTask)
        updated == [task EXCEPT
                      !.completed = IF task_update.status # Unset
                                    THEN is_completed(task_update.status) ELSE @,
                      !.title = IF task_update.title # UnsetStr
                                THEN task_update.title ELSE @,
                      !.description = IF task_update.description # UnsetStr
                                      THEN task_update.description ELSE @,
                      !.updated_at = t]
    IN  IF ~cu.ok THEN [out |-> cu.out, tasks |-> tasks_]
        ELSE IF ~TaskUpdateValid(v, task_update)
        THEN [out |-> ValidationError, tasks |-> tasks_]
        ELSE IF task = NoTask THEN [out |-> NotFound, tasks |-> tasks_]
        \* Task.title is nullable=False: the commit of a null title raises
        ELSE IF updated.title = NoneStr
        THEN [out |-> InternalServerError, tasks |-> tasks_]
        ELSE [out |-> Outcome(200, "", "none", TaskBody(updated)),
              tasks |-> (tasks_ \ {task}) \cup {updated}]

\* a delete that tells a task of another identity from a missing one
delete_task_Forbidden(v, users_, tasks_, token, id, t) ==
    LET cu == get_current_user(v, users_, token, t)
        task == First({x \in tasks_ : x.id = id}, NoTask)
    IN  IF ~cu.ok THEN [out |-> cu.out, tasks |-> tasks_]
        ELSE IF task = NoTask THEN [out |-> HTTPException(404, "Task not found", "none"),
                                    tasks |-> tasks_]
        ELSE IF task.user_id # cu.user.id
        THEN [out |-> HTTPException(403, "Not authorized", "none"), tasks |-> tasks_]
        ELSE [out |-> Outcome(200, "", "none", MessageBody("Task deleted successfully")),
              tasks |-> tasks_ \ {task}]

\* a delete that answers without removing the row
delete_task_Unsaved(v, users_, tasks_, token, id, t) ==
    LET cu == get_current_user(v, users_, token, t)
        task == First(OwnedTasks(tasks_, id, cu.user.id), NoTask)
    IN  IF ~cu.ok THEN [out |-> cu.out, tasks |-> tasks_]
        ELSE IF task = NoTask THEN [out |-> NotFound, tasks |-> tasks_]
        ELSE [out |-> Outcome(200, "", "none", MessageBody("Task deleted successfully")),
              tasks |-> tasks_]

delete_task(v, users_, tasks_, token, id, t) ==
    LET cu == get_current_user(v, users_, token, t)
        task == First(OwnedTasks(tasks_, id, cu.user.id), NoTask)
    IN  IF ~cu.ok THEN [out |-> cu.out, tasks |-> tasks_]
        ELSE IF task = NoTask THEN [out |-> NotFound, tasks |-> tasks_]
        ELSE [out |-> Outcome(200, "", "none", MessageBody("Task deleted successfully")),
              tasks |-> tasks_ \ {task}]

\* a toggle that marks the task completed whatever it was
toggle_task_completion_Completing(v, users_, tasks_, token, id, t) ==
    LET cu == get_current_user(v, users_, token, t)
        task == First(OwnedTasks(tasks_, id, cu.user.id), NoTask)
        toggled == [task EXCEPT !.completed = TRUE, !.updated_at = t]
    IN  IF ~cu.ok THEN [out |-> cu.out, tasks |-> tasks_]
        ELSE IF task = NoTask THEN [out |-> NotFound, tasks |-> tasks_]
        ELSE [out |-> Outcome(200, "", "none", TaskBody(toggled)),
              tasks |-> (tasks_ \ {task}) \cup {toggled}]

toggle_task_completion(v, users_, tasks_, token, id, t) ==
    LET cu == get_current_user(v, users_, token, t)
        task == First(OwnedTasks(tasks_, id, cu.user.id), NoTask)
        toggled == [task EXCEPT !.completed = ~task.completed, !.updated_at = t]
    IN  IF ~cu.ok THEN [out |-> cu.out, tasks |-> tasks_]
        ELSE IF task = NoTask THEN [out |-> NotFound, tasks |-> tasks_]
        ELSE [out |-> Outcome(200, "", "none", TaskBody(toggled)),
              tasks |-> (tasks_ \ {task}) \cup {toggled}]

----------------------------------------------------------------------------
(* The state machine *)

NoReq == [email |-> None, password |-> <<>>]

\* what a request carried as bearer token, at time t
TokenClass(token, t) ==
    IF token.kind = "none" THEN "missing"
    ELSE IF token.sig # "ok" THEN "invalid"
    ELSE IF t >= token.exp THEN "expired"
    ELSE "valid"

\* no request body; no query
NoRequest == [kind |-> "none"]
Query(status) == [kind |-> "query", status |-> status]
\* the body of POST /api/register, as far as resp.email does not tell it
UserIn(password) == [kind |-> "user", password |-> password]

\* the last response, with the request it answers: the operation, the class of
\* the bearer token ("n/a" where none is asked for), the identity the token
\* resolved to (None when it did not), the task id and the email of the
\* request, and the outcome; for the task endpoints also the body or the
\* query of the request (req) and, of a request that succeeded on a task, the
\* row as the handler read it (before); for a registration, req is its body
Resp(op, tok, caller, id, email, out) ==
    [op |-> op, tok |-> tok, caller |-> caller, id |-> id, email |-> email, out |-> out,
     req |-> NoRequest, before |-> NoTask]

\* the row a handler reads for id and the caller of token, when it answers 2xx
Before(token, id, out) ==
    IF out.status \in {200, 201}
    THEN First(OwnedTasks(tasks, id, get_current_user(version, users, token, now).user.id),
               NoTask)
    ELSE NoTask

Caller(token) == get_current_user(version, users, token, now).user.id
Class(token) == TokenClass(token, now)

Init ==
    /\ version \in Versions
    /\ users = {}
    /\ tasks = {}
    /\ nextTaskId = 1
    /\ now = 0
    /\ pending = [c \in Clients |-> NoReq]
    /\ receipts = {}
    /\ resp = Resp("none", "n/a", None, 0, None, Outcome(0, "", "none", NoBody))

\* time passes
Tick ==
    /\ now + TickMinutes <= MaxTime
    /\ now' = now + TickMinutes
    /\ UNCHANGED <<version, users, tasks, nextTaskId, pending, receipts, resp>>

\* a registration that, refused for its email, still stores its password
RegisterUser_Overwriting(c, email, password) ==
    /\ pending[c] = NoReq
    /\ LET pre == register_precheck(users, email)
           user == First(UsersByEmail(users, email), NoUser)
           salt == CHOOSE x \in Salts : TRUE
       IN  IF ~UserCreateValid(email, password)
           THEN /\ resp' = [Resp("register", "n/a", None, 0, email, ValidationError)
                               EXCEPT !.req = UserIn(password)]
                /\ UNCHANGED <<pending, users>>
           ELSE IF ~pre.ok
           THEN /\ resp' = [Resp("register", "n/a", None, 0, email, pre.out)
                               EXCEPT !.req = UserIn(password)]
                /\ users' = (users \ {user}) \cup
                       {[user EXCEPT !.hashed_password = get_password_hash(password, salt)]}
                /\ UNCHANGED pending
           ELSE /\ pending' = [pending EXCEPT ![c] = [email |-> email, password |-> password]]
                /\ UNCHANGED <<resp, users>>
    /\ UNCHANGED <<version, tasks, nextTaskId, now, receipts>>

\* POST /api/register, through the existence pre-check
RegisterUser(c, email, password) ==
    /\ pending[c] = NoReq
    /\ LET pre == register_precheck(users, email)
       IN  IF ~UserCreateValid(email, password)
           THEN /\ resp' = [Resp("register", "n/a", None, 0, email, ValidationError)
                               EXCEPT !.req = UserIn(password)]
                /\ UNCHANGED pending
           ELSE IF ~pre.ok
           THEN /\ resp' = [Resp("register", "n/a", None, 0, email, pre.out)
                               EXCEPT !.req = UserIn(password)]
                /\ UNCHANGED pending
           ELSE /\ pending' = [pending EXCEPT ![c] = [email |-> email, password |-> password]]
                /\ UNCHANGED resp
    /\ UNCHANGED <<version, users, tasks, nextTaskId, now, receipts>>

\* POST /api/register, from the insert to the response
RegisterCommit(c, id, salt) ==
    /\ pending[c] # NoReq
    /\ id = uuid4(users)
    /\ LET rq == pending[c]
           r == register_insert(version, users, rq.email, rq.password, id, salt, now)
       IN  /\ users' = r.users
           /\ resp' = [Resp("register", "n/a", None, 0, rq.email, r.out)
                         EXCEPT !.req = UserIn(rq.password)]
           /\ receipts' = IF r.out.status = 201
                           THEN receipts \cup {[email |-> rq.email, password |-> rq.password,
                                                token |-> r.out.body.access_token]}
                           ELSE receipts
    /\ pending' = [pending EXCEPT ![c] = NoReq]
    /\ UNCHANGED <<version, tasks, nextTaskId, now>>

\* a login that gives the identity a new id, so that tokens issued before it
\* name no identity any more
Login_Rotating(username, password) ==
    LET out == login_for_access_token(version, users, username, password, now)
        user == First(UsersByEmail(users, username), NoUser)
    IN  /\ resp' = Resp("login", "n/a", None, 0, username, out)
        /\ users' = IF out.status = 200
                     THEN (users \ {user}) \cup {[user EXCEPT !.id = uuid4(users)]}
                     ELSE users
        /\ UNCHANGED <<version, tasks, nextTaskId, now, pending, receipts>>

\* POST /api/login
Login(username, password) ==
    /\ resp' = Resp("login", "n/a", None, 0, username,
                     login_for_access_token(version, users, username, password, now))
    /\ UNCHANGED <<version, users, tasks, nextTaskId, now, pending, receipts>>

\* POST /api/logout
Logout ==
    /\ version = V0214
    /\ resp' = Resp("logout", "n/a", None, 0, None, logout_user)
    /\ UNCHANGED <<version, users, tasks, nextTaskId, now, pending, receipts>>

\* GET /api/users/me
ReadUsersMe(token) ==
    /\ resp' = Resp("users_me", Class(token), Caller(token), 0, None,
                     read_users_me(version, users, token, now))
    /\ UNCHANGED <<version, users, tasks, nextTaskId, now, pending, receipts>>

\* time passes between two requests
Elapse ==
    /\ now < MaxClock
    /\ now' = now + 1
    /\ UNCHANGED <<version, users, tasks, nextTaskId, pending, receipts, resp>>

\* POST /api/tasks; lapse is the time that passes between the handler's two
\* readings of the clock
CreateTask(token, task_in, lapse) ==
    /\ LET r == create_task(version, users, tasks, nextTaskId, token, task_in,
                            now, now + lapse)
       IN  /\ r.out.status # 201 => lapse = 0
           /\ tasks' = r.tasks
           /\ nextTaskId' = r.nid
           /\ resp' = [Resp("create", Class(token), Caller(token), 0, None, r.out)
                         EXCEPT !.req = task_in]
    /\ now' = now + lapse
    /\ UNCHANGED <<version, users, pending, receipts>>

\* GET /api/tasks
ListTasks(token, status, sort) ==
    /\ version = V0215 => sort = None
    /\ resp' = [Resp("list", Class(token), Caller(token), 0, None,
                      list_tasks(version, users, tasks, token, status, sort, now))
                  EXCEPT !.req = Query(status)]
    /\ UNCHANGED <<version, users, tasks, nextTaskId, now, pending, receipts>>

\* GET /api/tasks/{id}
GetTask(token, id) ==
    /\ LET out == get_task(version, users, tasks, token, id, now)
       IN  resp' = [Resp("get", Class(token), Caller(token), id, None, out)
                      EXCEPT !.before = Before(token, id, out)]
    /\ UNCHANGED <<version, users, tasks, nextTaskId, now, pending, receipts>>

\* PUT /api/tasks/{id}
UpdateTask(token, id, task_update) ==
    /\ LET r == update_task(version, users, tasks, token, id, task_update, now)
       IN  /\ tasks' = r.tasks
           /\ resp' = [Resp("update", Class(token), Caller(token), id, None, r.out)
                         EXCEPT !.req = task_update, !.before = Before(token, id, r.out)]
    /\ UNCHANGED <<version, users, nextTaskId, now, pending, receipts>>

\* DELETE /api/tasks/{id}
DeleteTask(token, id) ==
    /\ LET r == delete_task(version, users, tasks, token, id, now)
       IN  /\ tasks' = r.tasks
           /\ resp' = [Resp("delete", Class(token), Caller(token), id, None, r.out)
                         EXCEPT !.before = Before(token, id, r.out)]
    /\ UNCHANGED <<version, users, nextTaskId, now, pending, receipts>>

\* PATCH /api/tasks/{id}/complete
ToggleTask(token, id) ==
    /\ version = V0214
    /\ LET r == toggle_task_completion(version, users, tasks, token, id, now)
       IN  /\ tasks' = r.tasks
           /\ resp' = [Resp("toggle", Class(token), Caller(token), id, None, r.out)
                         EXCEPT !.before = Before(token, id, r.out)]
    /\ UNCHANGED <<version, users, nextTaskId, now, pending, receipts>>

\* POST /api/register, served without another request in between
Register(email, password, id, salt) ==
    /\ \A c \in Clients : pending[c] = NoReq
    /\ id = uuid4(users)
    /\ LET pre == register_precheck(users, email)
           r == register_insert(version, users, email, password, id, salt, now)
       IN  IF ~UserCreateValid(email, password)
           THEN /\ resp' = [Resp("register", "n/a", None, 0, email, ValidationError)
                               EXCEPT !.req = UserIn(password)]
                /\ UNCHANGED <<users, receipts>>
           ELSE IF ~pre.ok
           THEN /\ resp' = [Resp("register", "n/a", None, 0, email, pre.out)
                               EXCEPT !.req = UserIn(password)]
                /\ UNCHANGED <<users, receipts>>
           ELSE /\ users' = r.users
                /\ resp' = [Resp("register", "n/a", None, 0, email, r.out)
                              EXCEPT !.req = UserIn(password)]
                /\ receipts' = IF r.out.status = 201
                                THEN receipts \cup {[email |-> email, password |-> password,
                                                     token |-> r.out.body.access_token]}
                                ELSE receipts
    /\ UNCHANGED <<version, tasks, nextTaskId, now, pending>>

\* the whole API, one request at a time, while the clock stands still
Next ==
    \/ \E rq \in RegisterRequests, id \in UserIds, salt \in Salts :
          Register(rq[1], rq[2], id, salt)
    \/ \E rq \in LoginRequests : Login(rq[1], rq[2])
    \/ Logout
    \/ \E token \in TaskTokens : ReadUsersMe(token)
    \/ \E rq \in CreateRequests :
          nextTaskId <= MaxTasks /\ CreateTask(rq[1], rq[2], 0)
    \/ \E rq \in ListRequests : ListTasks(rq[1], rq[2], rq[3])
    \/ \E rq \in TaskRequests : GetTask(rq[1], rq[2])
    \/ \E rq \in UpdateRequests : UpdateTask(rq[1], rq[2], rq[3])
    \/ \E rq \in TaskRequests : DeleteTask(rq[1], rq[2])
    \/ \E rq \in TaskRequests : ToggleTask(rq[1], rq[2])

Spec == Init /\ [][Next]_vars

\* the account endpoints, with registrations of several clients interleaved
NextAccounts ==
    \/ Tick
    \/ \E c \in Clients, email \in Emails, password \in Passwords :
          RegisterUser(c, email, password)
    \/ \E c \in Clients, id \in UserIds, salt \in Salts : RegisterCommit(c, id, salt)
    \/ \E username \in Emails, password \in Passwords : Login(username, password)
    \/ Logout
    \/ \E token \in Tokens : ReadUsersMe(token)

SpecAccounts == Init /\ [][NextAccounts]_vars

\* the task endpoints with up to MaxRows tasks of two identities, while the
\* clock stands still
RowIds == 1..MaxRows

NextTasks ==
    \/ \E email \in ValidEmails, id \in UserIds, salt \in Salts :
          Register(email, PwP, id, salt)
    \/ \E token \in GoodTokens, task_in \in RowCreateInputs :
          nextTaskId <= MaxRows /\ CreateTask(token, task_in, 0)
    \/ \E token \in GoodTokens, status \in StatusFilters : ListTasks(token, status, None)
    \/ \E token \in GoodTokens, id \in RowIds : GetTask(token, id)
    \/ \E token \in GoodTokens, id \in RowIds, task_update \in RowUpdateInputs :
          UpdateTask(token, id, task_update)
    \/ \E token \in GoodTokens, id \in RowIds : DeleteTask(token, id)
    \/ \E token \in GoodTokens, id \in RowIds : ToggleTask(token, id)

SpecTasks == Init /\ [][NextTasks]_vars

\* one task, while time passes between the requests and within a creation,
\* short of the lifetime of a token
NextClock ==
    \/ Elapse
    \/ \E email \in ValidEmails, id \in UserIds, salt \in Salts :
          Register(email, PwP, id, salt)
    \/ \E token \in GoodTokens, task_in \in RowCreateInputs, lapse \in Lapses :
          /\ nextTaskId <= MaxTasks
          /\ now + lapse <= MaxClock
          /\ CreateTask(token, task_in, lapse)
    \/ \E token \in GoodTokens, id \in TaskIds : GetTask(token, id)
    \/ \E token \in GoodTokens, id \in TaskIds, task_update \in ClockUpdateInputs :
          UpdateTask(token, id, task_update)
    \/ \E token \in GoodTokens, id \in TaskIds : ToggleTask(token, id)
    \/ \E token \in GoodTokens, id \in TaskIds : DeleteTask(token, id)
    \/ \E token \in GoodTokens : ListTasks(token, None, None)

SpecClock == Init /\ [][NextClock]_vars

\* registrations and logins with passwords about the limits of the hasher
NextPasswords ==
    \/ \E email \in ValidEmails, password \in LongPasswords, id \in UserIds, salt \in Salts :
          Register(email, password, id, salt)
    \/ \E email \in ValidEmails, password \in LongPasswords : Login(email, password)

SpecPasswords == Init /\ [][NextPasswords]_vars

----------------------------------------------------------------------------
(* Cross-user isolation *)

PerIdOps == {"get", "update", "delete", "toggle"}
ReadOps == {"get", "list"}

\* the tasks of a store that do not belong to identity id
Foreign(tasks_, id) == {task \in tasks_ : task.user_id # id}

\* the tasks a response body carries
Returned(body) ==
    IF body.kind = "task" THEN {body.task}
    ELSE IF body.kind = "tasks" THEN body.items
    ELSE {}

\* the request of the last response came as a registered identity and
\* addressed, by its id, a task of another identity
AddressedForeign(r, tasks_) ==
    /\ r.op \in PerIdOps
    /\ r.caller # None
    /\ \E task \in tasks_ : task.id = r.id /\ task.user_id # r.caller

\* C1: whenever get, list, update, delete or toggle_complete runs as an
\* identity B, the response carries no task of another identity, the tasks
\* of the other identities are the same before and after, and if the request
\* addressed a task of another identity by its id (with a body the request
\* schema accepts) the answer is 404 "Task not found".
C1_CrossUserIsolation ==
    [][(resp'.op \in PerIdOps \cup ReadOps /\ resp'.caller # None) =>
         /\ Foreign(tasks', resp'.caller) = Foreign(tasks, resp'.caller)
         /\ \A task \in Returned(resp'.out.body) : task.user_id = resp'.caller
         /\ (AddressedForeign(resp', tasks) /\ resp'.out # ValidationError)
               => resp'.out = NotFound]_vars

\* B's update of a task that A owns was answered 404 and A's task is there
C1_Witness ==
    /\ resp.op = "update"
    /\ AddressedForeign(resp, tasks)
    /\ resp.out = NotFound

----------------------------------------------------------------------------
(* Existence non-disclosure *)

\* the good tokens that resolve to a registered identity, with the tasks of
\* other identities that carry id
ForeignWithId(token, id) ==
    {task \in tasks : task.id = id /\ task.user_id # Caller(token)}

\* C2: for get, update, delete and toggle_complete, in every reachable store
\* and for every identity B and task id owned by another identity, B's
\* outcome is the one B gets from the store without that task, where the id
\* does not exist at all; and when the request schema accepts the body that
\* outcome is 404 "Task not found".
C2_ExistenceNonDisclosure ==
    \A token \in GoodTokens, id \in TaskIds :
      LET other == ForeignWithId(token, id)
          without == tasks \ other
      IN  (Caller(token) # None /\ other # {}) =>
            /\ get_task(version, users, tasks, token, id, now)
                  = get_task(version, users, without, token, id, now)
            /\ get_task(version, users, tasks, token, id, now) = NotFound
            /\ delete_task(version, users, tasks, token, id, now).out
                  = delete_task(version, users, without, token, id, now).out
            /\ delete_task(version, users, tasks, token, id, now).out = NotFound
            /\ toggle_task_completion(version, users, tasks, token, id, now).out
                  = toggle_task_completion(version, users, without, token, id, now).out
            /\ toggle_task_completion(version, users, tasks, token, id, now).out = NotFound
            /\ \A task_update \in TaskUpdateInputs :
                  /\ update_task(version, users, tasks, token, id, task_update, now).out
                        = update_task(version, users, without, token, id, task_update, now).out
                  /\ TaskUpdateValid(version, task_update) =>
                        update_task(version, users, tasks, token, id, task_update, now).out
                          = NotFound

\* B's delete of a task that A owns was answered 404 "Task not found"
C2_Witness ==
    /\ resp.op = "delete"
    /\ AddressedForeign(resp, tasks)
    /\ resp.out.status = 404
    /\ resp.out.detail = "Task not found"

----------------------------------------------------------------------------
(* The authentication gate *)

ProtectedOps == {"users_me", "create", "list", "get", "update", "delete", "toggle"}
Rejected == {"missing", "invalid", "expired"}

\* C3: a protected operation asked for with a missing, invalid or expired
\* token is answered 401, and its step leaves the identities, the tasks and
\* the store's next task id as they were, whether or not the task exists.
C3_AuthenticationGate ==
    [][(resp'.op \in ProtectedOps /\ resp'.tok \in Rejected) =>
         /\ resp'.out.status = 401
         /\ resp'.caller = None
         /\ users' = users
         /\ tasks' = tasks
         /\ nextTaskId' = nextTaskId]_vars

\* an update of an existing task with an expired token was answered 401
C3_Witness ==
    /\ resp.op = "update"
    /\ resp.tok = "expired"
    /\ \E task \in tasks : task.id = resp.id
    /\ resp.out.status = 401

----------------------------------------------------------------------------
(* Token lifetime *)

\* the identity registered under an email
Identity(email) == First(UsersByEmail(users, email), NoUser)

\* the instants at which a token may be shown
Instants == 0..(MaxTime + ACCESS_TOKEN_EXPIRE_MINUTES + 1)

\* a token for subject sub that expires at exp verifies exactly before exp
ValidExactlyBefore(token, sub, exp) ==
    /\ token.exp = exp
    /\ \A t \in Instants :
          /\ t < exp => verify_token(token, t) = [ok |-> TRUE, sub |-> sub]
          /\ t >= exp => ~verify_token(token, t).ok

\* C4: the token of every registration expires ACCESS_TOKEN_EXPIRE_MINUTES
\* (30) after it was issued, and so does the token of every login that would
\* succeed now; each verifies to its subject at every instant before its
\* expiry and at none from then on; and no token whose expiry has come
\* resolves to an identity: users/me answers it 401.
C4_TokenLifetime ==
    /\ \A r \in receipts :
          ValidExactlyBefore(r.token, Identity(r.email).id,
                             Identity(r.email).created_at + ACCESS_TOKEN_EXPIRE_MINUTES)
    /\ \A username \in Emails, password \in Passwords :
          LET out == login_for_access_token(version, users, username, password, now)
          IN  out.status = 200 =>
                ValidExactlyBefore(out.body.access_token, Identity(username).id,
                                   now + ACCESS_TOKEN_EXPIRE_MINUTES)
    /\ \A token \in Tokens :
          (token.kind = "jwt" /\ token.exp <= now) =>
            /\ ~get_current_user(version, users, token, now).ok
            /\ read_users_me(version, users, token, now).status = 401

\* the token of a registration has expired and users/me has answered an
\* expired token 401
C4_Witness ==
    /\ \E r \in receipts : r.token.exp <= now
    /\ resp.op = "users_me"
    /\ resp.tok = "expired"
    /\ resp.out.status = 401

----------------------------------------------------------------------------
(* Identity resolution *)

\* C5: a protected operation whose token resolves to no identity, whether the
\* token is missing, invalid or expired or names a subject that is in no row,
\* is answered 401, never 404.
C5_UnresolvedIs401 ==
    (resp.op \in ProtectedOps /\ resp.caller = None) => resp.out.status = 401

----------------------------------------------------------------------------
(* Login *)

WrongPassword(email, password) ==
    /\ UsersByEmail(users, email) # {}
    /\ ~verify_password(password, Identity(email).hashed_password)

\* C6: in every reachable store a login with an email of no identity and a
\* login with the email of an identity and a wrong password get the same
\* outcome: 401, "Incorrect username or password", WWW-Authenticate: Bearer.
C6_LoginNoEnumeration ==
    \A e1 \in Emails, e2 \in Emails, p1 \in Passwords, p2 \in Passwords :
      (UsersByEmail(users, e1) = {} /\ WrongPassword(e2, p2)) =>
        /\ login_for_access_token(version, users, e1, p1, now)
              = login_for_access_token(version, users, e2, p2, now)
        /\ login_for_access_token(version, users, e2, p2, now)
              = HTTPException(401, "Incorrect username or password", "Bearer")

\* a login with a registered email was refused while another email is unregistered
C6_Witness ==
    /\ resp.op = "login"
    /\ resp.out.status = 401
    /\ UsersByEmail(users, resp.email) # {}
    /\ \E email \in ValidEmails : UsersByEmail(users, email) = {}

----------------------------------------------------------------------------
(* Registration *)

Conflict == HTTPException(409, "Email already registered", "none")

\* C7: a register request (one the request schema accepts) for an email that
\* an identity already has is answered 409 "Email already registered"
\* whatever its password, and inserts nothing, then or later.
C7_DuplicateRegistration ==
    [][\A c \in Clients, email \in ValidEmails, password \in Passwords :
         (/\ UsersByEmail(users, email) # {}
          /\ UserCreateValid(email, password)
          /\ RegisterUser(c, email, password))
           => /\ resp'.out = Conflict
              /\ resp'.email = email
              /\ users' = users
              /\ pending' = pending]_vars

\* a registration was answered 409 and its email has its one identity
C7_Witness ==
    /\ resp.op = "register"
    /\ resp.out = Conflict
    /\ Cardinality(UsersByEmail(users, resp.email)) = 1

\* C8: a registration that is refused, and not by the request schema, is
\* refused as 409 Conflict, also when the store's uniqueness constraint
\* refuses it at the insert.
C8_RaceLoserGetsConflict ==
    (resp.op = "register" /\ resp.out.status \notin {201, 422}) => resp.out.status = 409

\* C9: no two identities have the same email (compared exactly), so a lookup
\* by email matches at most one.
C9_EmailUnique ==
    /\ \A u \in users, w \in users : u.email = w.email => u = w
    /\ \A email \in Emails : Cardinality(UsersByEmail(users, email)) <= 1

\* of two registrations of one email that both passed the pre-check, one
\* has inserted its row and the other has been refused at its insert
C9_Witness ==
    /\ resp.op = "register"
    /\ resp.out = InternalServerError
    /\ Cardinality(UsersByEmail(users, resp.email)) = 1

\* what holds of a registration's receipt from then on
ReceiptHolds(r) ==
    LET u == Identity(r.email)
        login == login_for_access_token(version, users, r.email, r.password, now)
    IN  /\ Cardinality(UsersByEmail(users, r.email)) = 1
        /\ verify_password(r.password, u.hashed_password)
        /\ login.status = 200
        /\ login.body.kind = "token"
        /\ get_current_user(version, users, login.body.access_token, now).ok
        /\ get_current_user(version, users, login.body.access_token, now).user = u
        /\ \A t \in Instants :
              (u.created_at <= t /\ t < r.token.exp) =>
                /\ get_current_user(version, users, r.token, t).ok
                /\ get_current_user(version, users, r.token, t).user = u

\* C10: a registration (of an email and a password the request schema
\* accepts) whose email has no identity when its row is inserted is answered
\* 201 with a token; from then on a login with the same email and password
\* is answered 200 with a token; and the login's token, and the
\* registration's until it expires, resolve to the one identity of that
\* email, whose password hash is that registration's.
C10_RegisterThenLogin ==
    /\ [](\A r \in receipts : ReceiptHolds(r))
    /\ [][\A c \in Clients :
            (/\ pending[c] # NoReq
             /\ pending'[c] = NoReq
             /\ UsersByEmail(users, pending[c].email) = {})
              => /\ resp'.out.status = 201
                 /\ resp'.out.body.kind = "token"
                 /\ [email |-> pending[c].email, password |-> pending[c].password,
                      token |-> resp'.out.body.access_token] \in receipts']_vars

\* a login with the email of a registration was answered 200 with a token for
\* the subject of the registration's token
C10_Witness ==
    /\ resp.op = "login"
    /\ resp.out.status = 200
    /\ \E r \in receipts :
          /\ r.email = resp.email
          /\ resp.out.body.access_token.sub = r.token.sub

----------------------------------------------------------------------------
(* No revocation *)

\* a step of login or of logout
LoginOrLogout ==
    /\ resp'.op \in {"login", "logout"}
    /\ \/ \E username \in Emails, password \in Passwords : Login(username, password)
       \/ Logout

\* C11: a login or a logout, of anyone, changes no identity, no task and no
\* request in flight, and every token that verified before the step verifies
\* to the same subject after it and resolves as it did before; with C4
\* (verification depends on the token and the instant alone) it does so
\* until its expiry.
C11_NoRevocation ==
    [][LoginOrLogout =>
         /\ users' = users
         /\ tasks' = tasks
         /\ nextTaskId' = nextTaskId
         /\ pending' = pending
         /\ \A token \in Tokens :
               verify_token(token, now).ok =>
                 /\ verify_token(token, now') = verify_token(token, now)
                 /\ get_current_user(version', users', token, now')
                       = get_current_user(version, users, token, now)]_vars

\* a login was answered with a new token while the token of the registration,
\* issued earlier, still resolves to the identity
C11_Witness ==
    /\ resp.op = "login"
    /\ resp.out.status = 200
    /\ \E r \in receipts :
          /\ r.email = resp.email
          /\ r.token # resp.out.body.access_token
          /\ get_current_user(version, users, r.token, now).ok
          /\ get_current_user(version, users, r.token, now).user = Identity(r.email)

----------------------------------------------------------------------------
(* The credential hasher *)

\* the first 72 bytes of a password
Prefix72(password) ==
    LET bytes == encode(password)
    IN  SubSeq(bytes, 1, Min(Len(bytes), BCRYPT_MAX_BYTES))

----------------------------------------------------------------------------
(* Updates *)

\* a step of update that was answered 200
Updated ==
    /\ resp'.op = "update"
    /\ resp'.out.status = 200
    /\ \E token \in GoodTokens : UpdateTask(token, resp'.id, resp'.req)

\* C13: an update that is answered 200 replaces the one row it addresses
\* and leaves every other row as it was; of title, description and
\* completed it changes none that the request does not supply (completed
\* is supplied by status), so an update of the title alone leaves
\* description and completed as they were.
C13_PartialUpdateFrame ==
    [][Updated =>
         LET old == resp'.before
             new == resp'.out.body.task
             req == resp'.req
         IN  /\ old \in tasks
             /\ tasks' = (tasks \ {old}) \cup {new}
             /\ new.id = old.id
             /\ req.title = UnsetStr => new.title = old.title
             /\ req.description = UnsetStr => new.description = old.description
             /\ req.status = Unset => new.completed = old.completed
             /\ \A task \in tasks' : task.id = new.id => task = new]_vars

\* an update of the title alone has changed the title of a completed task
\* with a description, next to another task, and nothing else of it
C13_Witness ==
    /\ resp.op = "update"
    /\ resp.out.status = 200
    /\ resp.req = TaskIn(T2, UnsetStr, Unset)
    /\ resp.before.title = T1
    /\ resp.before.description = D1
    /\ resp.before.completed
    /\ resp.out.body.task = [resp.before EXCEPT !.title = T2]
    /\ resp.out.body.task \in tasks
    /\ Cardinality(tasks) = 2

----------------------------------------------------------------------------
(* Timestamps *)

\* a step of create that was answered 201
Created ==
    /\ resp'.op = "create"
    /\ resp'.out.status = 201
    /\ \E token \in GoodTokens, lapse \in Lapses : CreateTask(token, resp'.req, lapse)

\* a step of toggle_complete that was answered 200
Toggled ==
    /\ resp'.op = "toggle"
    /\ resp'.out.status = 200
    /\ \E token \in GoodTokens : ToggleTask(token, resp'.id)

\* C14: a created task has created_at = updated_at; an update or a toggle
\* that is answered 200 leaves the task with an updated_at later than the
\* one it had; so no step takes the updated_at of a task back, and none
\* leaves it earlier than created_at.
C14_UpdatedAtAdvances ==
    [][/\ Created =>
            resp'.out.body.task.created_at = resp'.out.body.task.updated_at
       /\ (Updated \/ Toggled) =>
            resp'.out.body.task.updated_at > resp'.before.updated_at
       /\ \A new \in tasks' :
            /\ new.created_at <= new.updated_at
            /\ \A old \in tasks : old.id = new.id => old.updated_at <= new.updated_at]_vars

----------------------------------------------------------------------------
(* Creation *)

\* C15: a task created with status completed is stored with completed true;
\* one created with status pending or in_progress, or with no status, is
\* stored with completed false; the stored user_id is the id of the caller,
\* and the title and the description are those of the request.
C15_CreateStatusMapping ==
    (resp.op = "create" /\ resp.out.status = 201) =>
        LET task == resp.out.body.task
            req == resp.req
        IN  /\ task \in tasks
            /\ task.completed = (req.status = "completed")
            /\ req.status \in {"pending", "in_progress", Unset} => ~task.completed
            /\ task.user_id = resp.caller
            /\ \E user \in users : user.id = task.user_id
            /\ task.title = req.title
            /\ task.description =
                   (IF req.description = UnsetStr THEN NoneStr ELSE req.description)

\* a task was created as completed, by a registered caller
C15_Witness ==
    /\ resp.op = "create"
    /\ resp.out.status = 201
    /\ resp.req.status = "completed"
    /\ resp.out.body.task.completed
    /\ resp.out.body.task.user_id = resp.caller
    /\ resp.out.body.task \in tasks

----------------------------------------------------------------------------
(* The status of an update *)

\* C16: an update answered 200 whose body carries status leaves the task
\* with completed true when that status is completed and false otherwise,
\* whatever completed was before; the row that is stored and returned has
\* the fields of a task and no status among them.
C16_UpdateStatusMapping ==
    /\ (resp.op = "update" /\ resp.out.status = 200 /\ resp.req.status # Unset) =>
            LET task == resp.out.body.task
            IN  /\ task \in tasks
                /\ task.id = resp.before.id
                /\ task.completed = (resp.req.status = "completed")
                /\ resp.req.status \in {"pending", "in_progress"} => ~task.completed
                /\ DOMAIN task = DOMAIN resp.before
    /\ \A task \in tasks : "status" \notin DOMAIN task

\* a completed task was updated with status pending or in_progress
C16_Witness ==
    /\ resp.op = "update"
    /\ resp.out.status = 200
    /\ resp.req.status \in {"pending", "in_progress"}
    /\ resp.before.completed
    /\ ~resp.out.body.task.completed
    /\ resp.out.body.task \in tasks

----------------------------------------------------------------------------
(* Listing *)

\* what a filter asks of a task
Matches(status, task) ==
    CASE status = None -> TRUE
      [] status = "completed" -> task.completed = TRUE
      [] status \in {"pending", "in_progress"} -> task.completed = FALSE

\* C17: a listing answered 200 returns all the tasks of the caller that
\* match the filter, and no other task: every task of the caller without a
\* filter, those with completed true for completed, those with completed
\* false for pending and for in_progress.
C17_ListResultSet ==
    (resp.op = "list" /\ resp.out.status = 200) =>
        /\ resp.req.status \in StatusFilters
        /\ resp.out.body.items =
              {task \in tasks : /\ task.user_id = resp.caller
                                /\ Matches(resp.req.status, task)}

\* a listing with filter in_progress returned one open task of the caller
\* and left out the other task of the store
C17_Witness ==
    /\ resp.op = "list"
    /\ resp.out.status = 200
    /\ resp.req.status = "in_progress"
    /\ Cardinality(tasks) = 2
    /\ \E task \in tasks :
          /\ resp.out.body.items = {task}
          /\ task.user_id = resp.caller
          /\ ~task.completed

----------------------------------------------------------------------------
(* Toggling *)

\* C18: a toggle answered 200 replaces the task by one with completed
\* negated and with the same id, title, description, user_id and
\* created_at; the same caller toggling the task once more is answered 200
\* with completed as it was before the first toggle.
C18_Toggle ==
    [][\A token \in GoodTokens :
          (/\ resp'.op = "toggle"
           /\ resp'.out.status = 200
           /\ ToggleTask(token, resp'.id)) =>
              LET old == resp'.before
                  new == resp'.out.body.task
                  again == toggle_task_completion(version', users', tasks', token,
                                                  resp'.id, now')
              IN  /\ old \in tasks
                  /\ tasks' = (tasks \ {old}) \cup {new}
                  /\ new.completed = ~old.completed
                  /\ new = [old EXCEPT !.completed = new.completed,
                                       !.updated_at = new.updated_at]
                  /\ again.out.status = 200
                  /\ again.out.body.task.completed = old.completed
                  /\ again.out.body.task =
                        [old EXCEPT !.updated_at = again.out.body.task.updated_at]]_vars

\* a completed task was toggled at a later instant than its last change
C18_Witness ==
    /\ resp.op = "toggle"
    /\ resp.out.status = 200
    /\ resp.before.completed
    /\ ~resp.out.body.task.completed
    /\ resp.out.body.task.updated_at > resp.before.updated_at
    /\ resp.out.body.task.created_at = resp.before.created_at
    /\ resp.out.body.task \in tasks

----------------------------------------------------------------------------
(* Deletion *)

\* the update bodies the request schema accepts
AcceptedUpdates == {task_update \in TaskUpdateInputs : TaskUpdateValid(version, task_update)}

\* C19: a delete answered 200 removes the addressed task of the caller and
\* leaves every other task as it was; in the state it leaves, get, update
\* (with a body the request schema accepts), delete and toggle of that id by
\* the same caller are answered 404 "Task not found" and change nothing, and
\* no listing of the caller, under any filter, holds a task of that id.
C19_PermanentDeletion ==
    [][\A token \in GoodTokens :
          (/\ resp'.op = "delete"
           /\ resp'.out.status = 200
           /\ DeleteTask(token, resp'.id)) =>
              LET old == resp'.before
                  id == resp'.id
              IN  /\ old \in tasks
                  /\ old.id = id
                  /\ old.user_id = resp'.caller
                  /\ tasks' = tasks \ {old}
                  /\ get_task(version', users', tasks', token, id, now') = NotFound
                  /\ \A task_update \in AcceptedUpdates :
                        update_task(version', users', tasks', token, id, task_update, now')
                          = [out |-> NotFound, tasks |-> tasks']
                  /\ delete_task(version', users', tasks', token, id, now')
                        = [out |-> NotFound, tasks |-> tasks']
                  /\ version = V0214 =>
                        toggle_task_completion(version', users', tasks', token, id, now')
                          = [out |-> NotFound, tasks |-> tasks']
                  /\ \A status \in StatusFilters :
                        LET out == list_tasks(version', users', tasks', token, status,
                                              None, now')
                        IN  /\ out.status = 200
                            /\ \A task \in out.body.items : task.id # id]_vars

\* one of two tasks was deleted and the other is still in the store
C19_Witness ==
    /\ resp.op = "delete"
    /\ resp.out.status = 200
    /\ resp.before.id = resp.id
    /\ resp.before.user_id = resp.caller
    /\ resp.before \notin tasks
    /\ Cardinality(tasks) = 1
    /\ \A task \in tasks : task.id # resp.id

----------------------------------------------------------------------------
(* Ownership *)

\* C20: no two tasks of the store share an id, and the user_id of each is
\* the id of a registered user; a task that a step adds to the store comes
\* from a creation answered 201 and carries the id of its caller; a task
\* that a step keeps has the user_id and the created_at it had, whatever
\* the operation, its caller and its body.
C20_OwnershipImmutable ==
    [][/\ \A a, b \in tasks' : a.id = b.id => a = b
       /\ \A new \in tasks' :
            /\ \E user \in users' : user.id = new.user_id
            /\ \A old \in tasks :
                  old.id = new.id => /\ old.user_id = new.user_id
                                     /\ old.created_at = new.created_at
            /\ (\A old \in tasks : old.id # new.id) =>
                  /\ resp'.op = "create"
                  /\ resp'.out.status = 201
                  /\ resp'.out.body.task = new
                  /\ new.user_id = resp'.caller
                  /\ new.id = nextTaskId]_vars

\* a task of one user answered 404 to an update by another user, at a later
\* instant than its creation, and is still the first user's
C20_Witness ==
    /\ resp.op = "update"
    /\ resp.out.status = 404
    /\ resp.tok = "valid"
    /\ now > 0
    /\ \E task \in tasks :
          /\ task.id = resp.id
          /\ task.user_id # resp.caller
          /\ task.created_at = 0

----------------------------------------------------------------------------
(* A refused registration *)

\* a step of register that was answered 409
Refused ==
    /\ resp'.op = "register"
    /\ resp'.out = Conflict
    /\ \E c \in Clients : RegisterUser(c, resp'.email, resp'.req.password)

\* C21: a registration answered 409 leaves the identity of its email as it
\* was (id, password hash, created_at) and the store with it; where that
\* identity was registered with a password p1, a login with p1 is answered
\* 200 with a token for the same identity after the refusal as before it,
\* and a login with the password p2 of the refused request, p2 other than
\* p1, is answered 401.
C21_RejectedRegistrationKeepsAccount ==
    [][Refused =>
         LET email == resp'.email
             p2 == resp'.req.password
         IN  /\ users' = users
             /\ UsersByEmail(users', email) = UsersByEmail(users, email)
             /\ Cardinality(UsersByEmail(users', email)) = 1
             /\ \A r \in receipts' :
                   r.email = email =>
                     /\ r \in receipts
                     /\ login_for_access_token(version', users', email, r.password, now')
                         = login_for_access_token(version, users, email, r.password, now)
                     /\ login_for_access_token(version', users', email, r.password, now')
                           .status = 200
                     /\ p2 # r.password =>
                           login_for_access_token(version', users', email, p2, now')
                             = HTTPException(401, "Incorrect username or password",
                                             "Bearer")]_vars

\* an email registered with one password was refused a registration with
\* another, and its login answers the first password only
C21_Witness ==
    /\ resp.op = "register"
    /\ resp.out = Conflict
    /\ \E r \in receipts :
          /\ r.email = resp.email
          /\ r.password # resp.req.password
          /\ login_for_access_token(version, users, r.email, r.password, now).status = 200
          /\ login_for_access_token(version, users, r.email, resp.req.password, now).status
                = 401

----------------------------------------------------------------------------
(* Titles *)

\* C22: every stored task has a title that is not null and is between
\* TITLE_MIN_LENGTH and TITLE_MAX_LENGTH long, whatever creations and
\* updates were answered before: an update stores no title that a creation
\* would refuse.
C22_TitleValid ==
    \A task \in tasks :
        /\ task.title # NoneStr
        /\ Len(task.title) >= TITLE_MIN_LENGTH
        /\ Len(task.title) <= TITLE_MAX_LENGTH
        /\ TaskCreateValid(TaskIn(task.title, UnsetStr, Unset))

====
